---------------------------- MODULE Spec2Model ----------------------------
(***************************************************************************)
(* Model of the document retriever of docGPT/deepDocGevalGolden.py (and    *)
(* its copy docGPT/deepDocTestCase.py): load_document, split_into_chunks,  *)
(* the module-level corpus construction, retrieve_context and doc_gpt.     *)
(*                                                                         *)
(* A Python string is a sequence of one-character strings.  An embedding   *)
(* is a vector of integers; cosine similarities are compared exactly (the  *)
(* rounding of the float32 arithmetic of the libraries is not modelled).   *)
(***************************************************************************)
EXTENDS Integers, Sequences, FiniteSets, TLC

VARIABLES
  pc,               \* position of the script / of the function under study
  file_exists,      \* os.path.exists(file_path)
  file_content,     \* what f.read() returns when the file exists
  opened,           \* number of open() calls made by load_document
  document,         \* module global `document`
  text,             \* split_into_chunks: parameter `text`
  chunk_size,       \* split_into_chunks: parameter `chunk_size`
  sentences,        \* split_into_chunks: local `sentences`
  idx,              \* split_into_chunks: position of the for loop in sentences
  current,          \* split_into_chunks: local `current`
  chunks_acc,       \* split_into_chunks: local `chunks`
  chunks,           \* module global `chunks`
  chunk_embeddings, \* module global `chunk_embeddings`
  query_emb,        \* retrieve_context: local `query_emb` (row 0)
  scores,           \* retrieve_context: local `scores`
  best_chunk,       \* retrieve_context: returned chunk
  error,            \* the exception that ended the last operation, or "none"
  calls,            \* number of retrieve_context calls made so far
  prev              \* (query_emb, best_chunk) of the previous successful call

vars == <<pc, file_exists, file_content, opened, document, text, chunk_size,
          sentences, idx, current, chunks_acc, chunks, chunk_embeddings,
          query_emb, scores, best_chunk, error, calls, prev>>

loadVars  == <<file_exists, file_content, opened, document>>
splitVars == <<text, chunk_size, sentences, idx, current, chunks_acc>>
corpusVars == <<chunks, chunk_embeddings>>
retrVars  == <<query_emb, scores, best_chunk, calls, prev>>

\* a variable that holds no value yet is <<>>, one that holds v is <<v>>
NoValue == <<>>
Some(v) == <<v>>

-----------------------------------------------------------------------------
(* Bounds of the model *)
MaxLen == 5          \* longest enumerated document text
MaxChunkSize == 5    \* largest enumerated chunk_size
MaxChunks == 2       \* largest enumerated corpus
MaxCoord == 2        \* largest first coordinate of an embedding

(* Program constants *)
DefaultChunkSize == 100   \* def split_into_chunks(text, chunk_size=100)
NumGoldens == 3           \* len(goldens): doc_gpt is called once per golden

Alphabet == {"a", "b", " ", "."}

RECURSIVE StringsUpTo(_)
StringsUpTo(n) ==
  IF n = 0 THEN {<<>>}
  ELSE LET S == StringsUpTo(n - 1)
       IN  S \cup {Append(s, c) : s \in {x \in S : Len(x) = n - 1}, c \in Alphabet}

\* "A is a. B is b. C is c."
ScenarioDoc == <<"A"," ","i","s"," ","a",".", " ","B"," ","i","s"," ","b",".",
                 " ","C"," ","i","s"," ","c",".">>
ScenarioSizes == {8, DefaultChunkSize}

Texts == StringsUpTo(MaxLen) \cup {ScenarioDoc}
\* the target lengths: positive, as a maximum chunk length is
ChunkSizes == (1..MaxChunkSize) \cup ScenarioSizes

-----------------------------------------------------------------------------
(* Python string operations *)

IsSpace(c) == c = " "

\* the positions of the periods of s
Periods(s) == {k \in 1..Len(s) : s[k] = "."}

\* the position of the j-th period of s; 0 for j = 0 and Len(s) + 1 past the
\* last one
PeriodAt(s, j) ==
  IF j = 0 THEN 0
  ELSE IF j > Cardinality(Periods(s)) THEN Len(s) + 1
  ELSE CHOOSE k \in Periods(s) :
         Cardinality({p \in Periods(s) : p <= k}) = j

\* str.split("."): the pieces between the periods, empty pieces kept
Split(s) ==
  [j \in 1..(Cardinality(Periods(s)) + 1) |->
     SubSeq(s, PeriodAt(s, j - 1) + 1, PeriodAt(s, j) - 1)]

\* str.strip(): leading and trailing whitespace removed
Strip(s) ==
  LET keep == {k \in 1..Len(s) : ~IsSpace(s[k])}
  IN  IF keep = {} THEN <<>>
      ELSE SubSeq(s, CHOOSE k \in keep : \A m \in keep : k <= m,
                     CHOOSE k \in keep : \A m \in keep : k >= m)

-----------------------------------------------------------------------------
(* split_into_chunks *)

FitsOffByOne(cur, sentence, size) == Len(cur) + Len(sentence) <= size
\* if len(current) + len(sentence) < chunk_size
Fits(cur, sentence, size) == Len(cur) + Len(sentence) < size

\* current += sentence + "."
Extend(cur, sentence) == cur \o sentence \o <<".">>

StartNewDropsSentence(sentence) == <<".">>
\* current = sentence + "."
StartNew(sentence) == sentence \o <<".">>

FlushUntrimmed(acc, cur) == Append(acc, cur)
\* chunks.append(current.strip())
Flush(acc, cur) == Append(acc, Strip(cur))

\* sentences = text.split("."); chunks = []; current = ""
EnterSplit ==
  /\ pc = "split"
  /\ sentences' = Split(text)
  /\ idx' = 1
  /\ current' = <<>>
  /\ chunks_acc' = <<>>
  /\ pc' = "loop"
  /\ UNCHANGED <<text, chunk_size, loadVars, corpusVars, retrVars, error>>

\* loop body, if branch
LoopAppend ==
  /\ pc = "loop"
  /\ idx <= Len(sentences)
  /\ Fits(current, sentences[idx], chunk_size)
  /\ current' = Extend(current, sentences[idx])
  /\ idx' = idx + 1
  /\ UNCHANGED <<pc, text, chunk_size, sentences, chunks_acc, loadVars,
                 corpusVars, retrVars, error>>

\* loop body, else branch
LoopFlush ==
  /\ pc = "loop"
  /\ idx <= Len(sentences)
  /\ ~Fits(current, sentences[idx], chunk_size)
  /\ chunks_acc' = Flush(chunks_acc, current)
  /\ current' = StartNew(sentences[idx])
  /\ idx' = idx + 1
  /\ UNCHANGED <<pc, text, chunk_size, sentences, loadVars, corpusVars,
                 retrVars, error>>

\* if current: chunks.append(current.strip()); return chunks
ReturnChunks ==
  /\ pc = "loop"
  /\ idx > Len(sentences)
  /\ chunks_acc' = IF current # <<>> THEN Flush(chunks_acc, current)
                   ELSE chunks_acc
  /\ pc' = "returned"
  /\ UNCHANGED <<text, chunk_size, sentences, idx, current, loadVars,
                 corpusVars, retrVars, error>>

InitChunk ==
  /\ pc = "split"
  /\ text \in Texts
  /\ chunk_size \in ChunkSizes
  /\ sentences = <<>> /\ idx = 0 /\ current = <<>> /\ chunks_acc = <<>>
  /\ file_exists = TRUE /\ file_content = <<>> /\ opened = 0
  /\ document = NoValue
  /\ chunks = <<>> /\ chunk_embeddings = <<>>
  /\ query_emb = NoValue /\ scores = <<>> /\ best_chunk = NoValue
  /\ error = "none" /\ calls = 0 /\ prev = NoValue

NextChunk == EnterSplit \/ LoopAppend \/ LoopFlush \/ ReturnChunks

SpecChunk == InitChunk /\ [][NextChunk]_vars

-----------------------------------------------------------------------------
(* Embeddings and cosine similarity *)

\* the vectors embedding_model.encode may produce
Vec == {<<x, y>> : x \in (-1)..MaxCoord, y \in 0..1}
ZeroVec == <<0, 0>>

Dot(u, v) == u[1] * v[1] + u[2] * v[2]
Norm2(v) == Dot(v, v)
Sign(n) == IF n > 0 THEN 1 ELSE IF n < 0 THEN -1 ELSE 0

\* A similarity x is held as the fraction sgn * num / den = sign(x) * x^2,
\* which orders similarities as x does.
ScoreLess(a, b) == a.sgn * a.num * b.den < b.sgn * b.num * a.den
ScoreEqual(a, b) == a.sgn * a.num * b.den = b.sgn * b.num * a.den

CosineNotNormalized(q, c) ==
  [sgn |-> Sign(Dot(q, c)), num |-> Dot(q, c) * Dot(q, c), den |-> 1]
\* sklearn cosine_similarity of two rows: both rows are scaled to unit length
\* (a row of norm zero is left as it is) and multiplied
Cosine(q, c) ==
  IF Norm2(q) = 0 \/ Norm2(c) = 0
  THEN [sgn |-> 0, num |-> 0, den |-> 1]
  ELSE [sgn |-> Sign(Dot(q, c)), num |-> Dot(q, c) * Dot(q, c),
        den |-> Norm2(q) * Norm2(c)]

\* cosine_similarity(query_emb, chunk_embeddings)[0]
cosine_similarity(q, embs) == [i \in 1..Len(embs) |-> Cosine(q, embs[i])]

RECURSIVE ArgmaxLastFrom(_, _, _)
ArgmaxLastFrom(sc, i, best) ==
  IF i > Len(sc) THEN best
  ELSE IF ~ScoreLess(sc[i], sc[best]) THEN ArgmaxLastFrom(sc, i + 1, i)
  ELSE ArgmaxLastFrom(sc, i + 1, best)

RECURSIVE ArgmaxFrom(_, _, _)
ArgmaxFrom(sc, i, best) ==
  IF i > Len(sc) THEN best
  ELSE IF ScoreLess(sc[best], sc[i]) THEN ArgmaxFrom(sc, i + 1, i)
  ELSE ArgmaxFrom(sc, i + 1, best)

argmax_last(sc) == ArgmaxLastFrom(sc, 2, 1)
\* np.argmax of a non-empty array: the first index of the maximum
\* (positions are counted from 1 here, from 0 in Python)
argmax(sc) == ArgmaxFrom(sc, 2, 1)

\* what the libraries raise when the corpus is empty is not fixed by the
\* source: cosine_similarity rejects the empty array, np.argmax and the
\* indexing of chunks would fail after it
EmptyCorpusErrors == {"ValueError", "IndexError"}

-----------------------------------------------------------------------------
(* load_document and the module-level construction of the corpus *)

Rep(c, n) == [k \in 1..n |-> c]

\* contents of docs/knowledge.txt
FileContents ==
  { <<>>,
    <<" ", "a", ".", " ", "b", " ">>,
    ScenarioDoc,
    Rep("a", 60) \o <<".">> \o Rep("b", 60) \o <<".">>,
    Rep("a", 99) \o <<".", " ">> \o Rep("b", 100) \o <<".">> \o Rep("a", 99) \o <<".">>,
    Rep("a", 100) }

load_document_unchecked(exists, content) ==
  IF ~exists THEN [error |-> "none", opens |-> 0, text |-> Some(<<>>)]
  ELSE [error |-> "none", opens |-> 1, text |-> Some(Strip(content))]
\* load_document(file_path): the exception raised, the number of open()
\* calls and the text returned
load_document(exists, content) ==
  IF ~exists THEN [error |-> "FileNotFoundError", opens |-> 0, text |-> NoValue]
  ELSE [error |-> "none", opens |-> 1, text |-> Some(Strip(content))]

\* document = load_document()
LoadDocument ==
  /\ pc = "load"
  /\ LET r == load_document(file_exists, file_content)
     IN  /\ error' = r.error
         /\ opened' = opened + r.opens
         /\ document' = r.text
         /\ pc' = IF r.error = "none" THEN "chunk" ELSE "failed"
  /\ UNCHANGED <<file_exists, file_content, splitVars, corpusVars, retrVars>>

\* chunks = split_into_chunks(document): the call
CallSplit ==
  /\ pc = "chunk"
  /\ text' = document[1]
  /\ chunk_size' = DefaultChunkSize
  /\ pc' = "split"
  /\ UNCHANGED <<sentences, idx, current, chunks_acc, loadVars, corpusVars,
                 retrVars, error>>

\* encode gives equal texts equal vectors
Encodings(cs) ==
  {e \in [1..Len(cs) -> Vec] :
     \A i, j \in 1..Len(cs) : cs[i] = cs[j] => e[i] = e[j]}

\* the non-empty chunks of cs, in order
NonEmptyChunks(cs) == SelectSeq(cs, LAMBDA c : c # <<>>)

EncodeChunksSkipsEmpty ==
  /\ pc = "returned"
  /\ chunks' = chunks_acc
  /\ chunk_embeddings' \in Encodings(NonEmptyChunks(chunks_acc))
  /\ pc' = "ready"
  /\ UNCHANGED <<loadVars, splitVars, retrVars, error>>

\* chunks = <the returned list>;
\* chunk_embeddings = embedding_model.encode(chunks)
EncodeChunks ==
  /\ pc = "returned"
  /\ chunks' = chunks_acc
  /\ chunk_embeddings' \in Encodings(chunks_acc)
  /\ pc' = "ready"
  /\ UNCHANGED <<loadVars, splitVars, retrVars, error>>

-----------------------------------------------------------------------------
(* retrieve_context, called through doc_gpt once per golden *)

\* retrieve_context(query) on a corpus with at least one chunk; q is the
\* embedding of the query
RetrieveContext ==
  /\ pc = "ready"
  /\ calls < NumGoldens
  /\ chunks # <<>>
  /\ \E q \in Vec :
       /\ query_emb' = Some(q)
       /\ scores' = cosine_similarity(q, chunk_embeddings)
       /\ best_chunk' = Some(chunks[argmax(scores')])
  /\ prev' = IF best_chunk = NoValue THEN NoValue
             ELSE Some(<<query_emb[1], best_chunk[1]>>)
  /\ calls' = calls + 1
  /\ UNCHANGED <<pc, loadVars, splitVars, corpusVars, error>>

\* retrieve_context(query) on a corpus without chunks
RetrieveContextEmpty ==
  /\ pc = "ready"
  /\ calls < NumGoldens
  /\ chunks = <<>>
  /\ \E q \in Vec : query_emb' = Some(q)
  /\ \E e \in EmptyCorpusErrors : error' = e
  /\ scores' = <<>>
  /\ best_chunk' = NoValue
  /\ prev' = prev
  /\ calls' = calls + 1
  /\ pc' = "failed"
  /\ UNCHANGED <<loadVars, splitVars, corpusVars>>

-----------------------------------------------------------------------------
(* The script *)

Init ==
  /\ pc = "load"
  /\ file_exists \in BOOLEAN
  /\ file_content \in (IF file_exists THEN FileContents ELSE {<<>>})
  /\ opened = 0
  /\ document = NoValue
  /\ text = <<>> /\ chunk_size = 0
  /\ sentences = <<>> /\ idx = 0 /\ current = <<>> /\ chunks_acc = <<>>
  /\ chunks = <<>> /\ chunk_embeddings = <<>>
  /\ query_emb = NoValue /\ scores = <<>> /\ best_chunk = NoValue
  /\ error = "none" /\ calls = 0 /\ prev = NoValue

Next ==
  \/ LoadDocument
  \/ CallSplit
  \/ EnterSplit
  \/ LoopAppend
  \/ LoopFlush
  \/ ReturnChunks
  \/ EncodeChunks
  \/ RetrieveContext

Spec == Init /\ [][Next]_vars

-----------------------------------------------------------------------------
(* retrieve_context over every corpus of up to MaxChunks chunks *)

SampleChunk(i) == Rep("c", i) \o <<".">>

InitRetrieve ==
  /\ pc = "ready"
  /\ \E n \in 0..MaxChunks :
       /\ chunks = [i \in 1..n |-> SampleChunk(i)]
       /\ chunk_embeddings \in [1..n -> Vec]
  /\ file_exists = TRUE /\ file_content = <<>> /\ opened = 0
  /\ document = NoValue
  /\ text = <<>> /\ chunk_size = 0
  /\ sentences = <<>> /\ idx = 0 /\ current = <<>> /\ chunks_acc = <<>>
  /\ query_emb = NoValue /\ scores = <<>> /\ best_chunk = NoValue
  /\ error = "none" /\ calls = 0 /\ prev = NoValue

NextRetrieve == RetrieveContext \/ RetrieveContextEmpty

SpecRetrieve == InitRetrieve /\ [][NextRetrieve]_vars

-----------------------------------------------------------------------------
(* Properties of split_into_chunks *)

Returned == pc = "returned"

HasPeriod(s) == \E k \in 1..Len(s) : s[k] = "."

RECURSIVE Concat(_)
Concat(ss) == IF ss = <<>> THEN <<>> ELSE Head(ss) \o Concat(Tail(ss))

\* s with every period and every whitespace character deleted
Content(s) == SelectSeq(s, LAMBDA c : c # "." /\ ~IsSpace(c))

\* the chunk is one piece of text.split(".") with its period, trimmed
SingleFragmentChunk(c, minLen) ==
  \E j \in 1..Len(Split(text)) :
    /\ Len(Split(text)[j]) >= minLen
    /\ c = Strip(Split(text)[j] \o <<".">>)

\* C1 as stated: for chunk_size > 0, a returned chunk longer than chunk_size
\* is a single fragment that is by itself longer than chunk_size.
C1_Original ==
  (Returned /\ chunk_size > 0) =>
    \A i \in 1..Len(chunks_acc) :
      Len(chunks_acc[i]) > chunk_size =>
        SingleFragmentChunk(chunks_acc[i], chunk_size + 1)

\* C1 amended: for chunk_size > 0, a returned chunk longer than chunk_size is
\* a single fragment of at least chunk_size characters with its re-appended
\* period (so fragment plus period is longer than chunk_size).
C1_BoundedSize ==
  (Returned /\ chunk_size > 0) =>
    \A i \in 1..Len(chunks_acc) :
      Len(chunks_acc[i]) > chunk_size =>
        SingleFragmentChunk(chunks_acc[i], chunk_size)

\* a call that returned both an over-long single-fragment chunk and a chunk
\* of exactly chunk_size characters built from two fragments
C1_Witness ==
  /\ Returned /\ chunk_size > 0
  /\ \E i \in 1..Len(chunks_acc) : Len(chunks_acc[i]) > chunk_size
  /\ \E i \in 1..Len(chunks_acc) :
       /\ Len(chunks_acc[i]) = chunk_size
       /\ Cardinality({k \in 1..Len(chunks_acc[i]) : chunks_acc[i][k] = "."}) = 2

\* C2: a non-empty document with at least one period yields at least one
\* chunk, and the chunks concatenated in order, periods and whitespace
\* deleted, are the document with periods and whitespace deleted.
C2_Coverage ==
  (Returned /\ text # <<>> /\ HasPeriod(text)) =>
    /\ Len(chunks_acc) >= 1
    /\ Content(Concat(chunks_acc)) = Content(text)

\* a call on a document with a period and two different letters that
\* returned several chunks
C2_Witness ==
  /\ Returned /\ HasPeriod(text)
  /\ Len(chunks_acc) >= 2
  /\ \E j, k \in 1..Len(text) : j < k /\ text[j] = "b" /\ text[k] = "a"
  /\ \E i \in 1..Len(chunks_acc) : "a" \in {chunks_acc[i][k] : k \in 1..Len(chunks_acc[i])}

\* C3: every chunk of the returned sequence is a non-empty string.
C3_NonEmptyChunks ==
  Returned => \A i \in 1..Len(chunks_acc) : chunks_acc[i] # <<>>

\* C6: the empty document yields the empty sequence of chunks.
C6_EmptyDocument ==
  (Returned /\ text = <<>>) => chunks_acc = <<>>

\* C7: "A is a. B is b. C is c." yields the document itself as the only
\* chunk with chunk_size 100 and its three sentences with chunk_size 8.
C7_Scenario ==
  (Returned /\ text = ScenarioDoc) =>
    /\ chunk_size = 100 => chunks_acc = <<ScenarioDoc>>
    /\ chunk_size = 8 =>
         chunks_acc = << <<"A"," ","i","s"," ","a",".">>,
                         <<"B"," ","i","s"," ","b",".">>,
                         <<"C"," ","i","s"," ","c",".">> >>

\* C8: a document without a period yields exactly one chunk, the document.
C8_NoPeriod ==
  (Returned /\ ~HasPeriod(text)) => chunks_acc = <<text>>

-----------------------------------------------------------------------------
(* Properties of load_document *)

\* C9: load_document on a path that does not exist raises FileNotFoundError
\* without opening the file and without returning a document, and the script
\* ends there: nothing is chunked, embedded or retrieved.
C9_MissingFile ==
  /\ (~file_exists /\ pc # "load") => error = "FileNotFoundError"
  /\ error = "FileNotFoundError" =>
       /\ pc = "failed"
       /\ opened = 0
       /\ document = NoValue
       /\ sentences = <<>> /\ chunks_acc = <<>>
       /\ chunks = <<>> /\ chunk_embeddings = <<>>
       /\ calls = 0 /\ query_emb = NoValue /\ best_chunk = NoValue

\* load_document has been called on a missing file
C9_Witness == ~file_exists /\ pc = "failed" /\ error = "FileNotFoundError"

-----------------------------------------------------------------------------
(* Properties of retrieve_context *)

Answered == pc = "ready" /\ best_chunk # NoValue

\* similarity of chunk i to the current query
Sim(i) == Cosine(query_emb[1], chunk_embeddings[i])

\* no chunk is more similar to the query than chunk i
IsMaximal(i) == \A j \in 1..Len(chunks) : ~ScoreLess(Sim(i), Sim(j))

\* u = a * v for some a > 0
PositiveMultiple(u, v) == u[1] * v[2] = u[2] * v[1] /\ Dot(u, v) > 0

\* C4: retrieve_context returns chunks[i] for the smallest i whose cosine
\* similarity to the query is the maximum over all chunks; a call with the
\* query of the previous call returns the chunk of the previous call.
C4_FirstArgmax ==
  Answered =>
    /\ \E i \in 1..Len(chunks) :
         /\ best_chunk = Some(chunks[i])
         /\ IsMaximal(i)
         /\ \A j \in 1..(i - 1) : ~IsMaximal(j)
    /\ (prev # NoValue /\ prev[1][1] = query_emb[1]) =>
         prev[1][2] = best_chunk[1]

\* a second call with the same query, on a corpus where two chunks tie for
\* the maximum
C4_Witness ==
  /\ Answered
  /\ prev # NoValue /\ prev[1][1] = query_emb[1]
  /\ \E i, j \in 1..Len(chunks) :
       i < j /\ IsMaximal(i) /\ IsMaximal(j) /\ best_chunk = Some(chunks[i])

\* C5 as stated: a chunk whose embedding is identical to the query embedding
\* is the chunk returned.
C5_Original ==
  Answered =>
    \A k \in 1..Len(chunks) :
      chunk_embeddings[k] = query_emb[1] => best_chunk = Some(chunks[k])

\* C5 amended: a chunk whose embedding is identical to the query embedding is
\* the chunk returned, provided that embedding is not the zero vector and no
\* chunk at a smaller index has an embedding that is a positive multiple of
\* the query embedding.
C5_ExactMatch ==
  Answered =>
    \A k \in 1..Len(chunks) :
      ( /\ chunk_embeddings[k] = query_emb[1]
        /\ query_emb[1] # ZeroVec
        /\ \A j \in 1..(k - 1) :
             ~PositiveMultiple(chunk_embeddings[j], query_emb[1]) )
      => best_chunk = Some(chunks[k])

\* the last chunk carries the query embedding, a longer multiple of it
\* follows no chunk before it, and the last chunk is returned
C5_Witness ==
  /\ Answered
  /\ Len(chunks) >= 2
  /\ chunk_embeddings[Len(chunks)] = query_emb[1]
  /\ query_emb[1] # ZeroVec
  /\ \A j \in 1..(Len(chunks) - 1) :
       /\ ~PositiveMultiple(chunk_embeddings[j], query_emb[1])
       /\ Norm2(chunk_embeddings[j]) > Norm2(query_emb[1])
  /\ best_chunk = Some(chunks[Len(chunks)])

C11_DegenerateQuery ==
  (calls > 0 /\ chunks # <<>> /\ query_emb = Some(ZeroVec)) =>
    (error = "DegenerateEmbedding" /\ best_chunk = NoValue)

-----------------------------------------------------------------------------
(* Properties of the corpus *)

\* the corpus exists: chunk_embeddings = encode(chunks) has run
CorpusBuilt == pc = "ready"

\* one embedding per chunk of the full list split_into_chunks returned, at
\* the position of its chunk
CorpusAligned ==
  /\ chunks = chunks_acc
  /\ Len(chunk_embeddings) = Len(chunks)
  /\ DOMAIN chunk_embeddings = DOMAIN chunks
  /\ \A i \in DOMAIN chunks :
       /\ chunk_embeddings[i] \in Vec
       /\ \A j \in DOMAIN chunks :
            chunks[i] = chunks[j] => chunk_embeddings[i] = chunk_embeddings[j]

\* C12: once the corpus is built there is one embedding per chunk, at the
\* position of its chunk; no retrieval runs before the corpus is built; the
\* corpus is written by one step only, before the first retrieval; and a
\* retrieval call changes neither the document nor the chunks nor the chunk
\* embeddings (it embeds its own query only).
C12_CorpusInvariant ==
  /\ [](CorpusBuilt => CorpusAligned)
  /\ [](calls > 0 => CorpusBuilt)
  /\ [][ /\ calls' # calls => UNCHANGED <<document, chunks, chunk_embeddings>>
         /\ <<chunks, chunk_embeddings>>' # <<chunks, chunk_embeddings>> =>
              (pc = "returned" /\ calls = 0 /\ CorpusBuilt')
         /\ CorpusBuilt => UNCHANGED <<document, chunks, chunk_embeddings>> ]_vars

\* the script has made all its retrieval calls on a corpus of several chunks,
\* two of them equal
C12_Witness ==
  /\ CorpusBuilt
  /\ calls = NumGoldens
  /\ Len(chunks) >= 3
  /\ \E i, j \in DOMAIN chunks : i < j /\ chunks[i] = chunks[j]

-----------------------------------------------------------------------------
(* Properties of the loop of split_into_chunks *)

InLoopBody == pc = "loop" /\ idx <= Len(sentences)

\* the step appends the fragment and its period to the accumulator
Appended ==
  /\ current' = current \o sentences[idx] \o <<".">>
  /\ chunks_acc' = chunks_acc

\* the step completes the trimmed accumulator as a chunk and starts a new
\* accumulator from the fragment and its period
Flushed ==
  /\ chunks_acc' = chunks_acc \o <<Strip(current)>>
  /\ current' = sentences[idx] \o <<".">>

\* C13 as stated: the fragment is appended exactly when accumulator length
\* plus fragment length plus one is below the threshold, else the
\* accumulator is flushed.
C13_Original ==
  [][InLoopBody =>
       IF Len(current) + Len(sentences[idx]) + 1 < chunk_size
       THEN Appended /\ ~Flushed
       ELSE Flushed /\ ~Appended]_vars

\* C13 amended: the fragment is appended exactly when accumulator length
\* plus fragment length (the period not counted) is below the threshold, else
\* the accumulator is flushed, trimmed, and restarted from the fragment plus
\* its period.
C13_AppendOrFlush ==
  [][InLoopBody =>
       IF Len(current) + Len(sentences[idx]) < chunk_size
       THEN Appended /\ ~Flushed
       ELSE Flushed /\ ~Appended]_vars

\* a call that has flushed an accumulator with surrounding whitespace and has
\* then filled the next accumulator to exactly chunk_size by an append
C13_Witness ==
  /\ pc = "loop" /\ idx > 1
  /\ chunks_acc # <<>>
  /\ \E i \in 1..Len(chunks_acc) :
       chunks_acc[i] # <<>> /\ Len(chunks_acc[i]) < Len(sentences[i]) + 1
  /\ Len(current) = chunk_size
  /\ Cardinality({k \in 1..Len(current) : current[k] = "."}) >= 2

=============================================================================
